---- MODULE Spec2Model ----
(***************************************************************************)
(* A model of tools/scripts/compare_benchmarks.py: the Aggregator          *)
(* (extract_results), the Significance Estimator (compute_significance)    *)
(* and the Reporter (compare_benchmarks).                                  *)
(*                                                                         *)
(* Numbers.  The program works on floats; the model works on integers and  *)
(* exact rationals.  A t-statistic t = |d| / sqrt(S / n), with             *)
(* S = baseline_std^2 + optimized_std^2, is carried as its square          *)
(* t^2 = (d^2 * n) / S, a record [num, den]; since t >= 0, comparing t     *)
(* with a threshold c is comparing t^2 with c^2.  A percentage change      *)
(* ((o - b) / b) * 100 is carried as the rational [num |-> (o-b)*100,      *)
(* den |-> b].                                                             *)
(*                                                                         *)
(* Dicts are functions: a result set maps logical names to bundles, a      *)
(* bundle maps field names to values, a measurement record maps "name",    *)
(* and optionally "real_time" and "cpu_time", to their values.             *)
(***************************************************************************)
EXTENDS Integers, Sequences, FiniteSets, TLC

VARIABLES
    data, results,                      \* extract_results: records consumed so far, its local dict
    sig_args, sig_ret, sig_prev,        \* compute_significance: arguments, result, result of the call before
    pc,                                 \* compare_benchmarks: position
    baseline_results, optimized_results,
    nread,                              \* records of the current file consumed by extract_results
    todo,                               \* the names the report loop has still to visit, in order
    table,                              \* the rows printed so far
    significant_improvements,
    legend,                             \* the legend has been printed
    summary                             \* "none", "list" (improvements printed) or "notice"

aggVars == <<data, results>>
sigVars == <<sig_args, sig_ret, sig_prev>>
cmpVars == <<pc, baseline_results, optimized_results, nread, todo, table,
             significant_improvements, legend, summary>>
vars == <<data, results, sig_args, sig_ret, sig_prev, pc, baseline_results,
          optimized_results, nread, todo, table, significant_improvements,
          legend, summary>>

-----------------------------------------------------------------------------
(* Dicts *)

EmptyDict == <<>>

\* d.get(k, default)
Get(d, k, default) == IF k \in DOMAIN d THEN d[k] ELSE default

\* d[k] = v
Put(d, k, v) == [x \in (DOMAIN d) \cup {k} |-> IF x = k THEN v ELSE d[x]]

-----------------------------------------------------------------------------
(* Strings *)

\* str.endswith
EndsWith(s, suffix) ==
    /\ Len(s) >= Len(suffix)
    /\ SubSeq(s, Len(s) - Len(suffix) + 1, Len(s)) = suffix

\* s[:-len(suffix)]
DropSuffix(s, suffix) == SubSeq(s, 1, Len(s) - Len(suffix))

\* The characters of the names used, in code point order ('_' is 95, before
\* the lower case letters).
Alphabet == "_abcdeimnstv"

CodePoint(c) == CHOOSE i \in 1..Len(Alphabet) : SubSeq(Alphabet, i, i) = c

\* s < t, as Python compares strings: by the first differing character, a
\* proper prefix first.
RECURSIVE StrLess(_, _)
StrLess(s, t) ==
    IF Len(t) = 0 THEN FALSE
    ELSE IF Len(s) = 0 THEN TRUE
    ELSE LET cs == CodePoint(SubSeq(s, 1, 1))
             ct == CodePoint(SubSeq(t, 1, 1))
         IN  IF cs # ct THEN cs < ct
             ELSE StrLess(SubSeq(s, 2, Len(s)), SubSeq(t, 2, Len(t)))

-----------------------------------------------------------------------------
(* Exact arithmetic *)

Abs(x) == IF x < 0 THEN -x ELSE x

\* a/b > c/d for a, c >= 0 and b, d > 0, by the continued fraction
\* expansion, so that no product leaves the integers of the model checker.
RECURSIVE FracGT(_, _, _, _)
FracGT(a, b, c, d) ==
    LET q1 == a \div b
        q2 == c \div d
        r1 == a % b
        r2 == c % d
    IN  IF q1 # q2 THEN q1 > q2
        ELSE IF r1 = 0 THEN FALSE
        ELSE IF r2 = 0 THEN TRUE
        ELSE FracGT(d, r2, b, r1)

\* The float 0.0 returned in the degenerate cases.
TZero == [num |-> 0, den |-> 1]

\* t > c / 100
TGreater(t, c) == FracGT(t.num, t.den, c * c, 10000)

-----------------------------------------------------------------------------
(* compute_significance *)

\* The assumed sample size.
n == 20

\* The thresholds 3.85, 2.85, 2.09 and 1.68, in hundredths.
T_p001 == 385
T_p01 == 285
T_p05 == 209
T_p10 == 168

\* A plausible slip: the comparisons made with >= .
MarkerMutantNonStrict(t) ==
    IF ~FracGT(T_p001 * T_p001, 10000, t.num, t.den) THEN "***"
    ELSE IF ~FracGT(T_p01 * T_p01, 10000, t.num, t.den) THEN "**"
    ELSE IF ~FracGT(T_p05 * T_p05, 10000, t.num, t.den) THEN "*"
    ELSE IF ~FracGT(T_p10 * T_p10, 10000, t.num, t.den) THEN "."
    ELSE ""

\* A plausible slip: the p < 0.05 tier tested before the p < 0.01 tier.
MarkerMutantOrder(t) ==
    IF TGreater(t, T_p001) THEN "***"
    ELSE IF TGreater(t, T_p05) THEN "*"
    ELSE IF TGreater(t, T_p01) THEN "**"
    ELSE IF TGreater(t, T_p10) THEN "."
    ELSE ""

\* The if/elif chain that maps t to its marker.
Marker(t) ==
    IF TGreater(t, T_p001) THEN "***"
    ELSE IF TGreater(t, T_p01) THEN "**"
    ELSE IF TGreater(t, T_p05) THEN "*"
    ELSE IF TGreater(t, T_p10) THEN "."
    ELSE ""

\* A plausible slip: no guard for the case without variability data, the
\* division by a zero standard error read as an infinite t.
compute_significance_MutantNoGuard(baseline_mean, baseline_std, optimized_mean, optimized_std) ==
    LET se2n == baseline_std * baseline_std + optimized_std * optimized_std
        t == [num |-> (baseline_mean - optimized_mean) * (baseline_mean - optimized_mean) * n,
              den |-> IF se2n = 0 THEN 1 ELSE se2n]
    IN  IF se2n = 0 /\ baseline_mean # optimized_mean
        THEN [t |-> [num |-> 1000000, den |-> 1], marker |-> "***"]
        ELSE [t |-> t, marker |-> Marker(t)]

\* Returns (t, marker).  se2n is n times the square of the standard error.
compute_significance(baseline_mean, baseline_std, optimized_mean, optimized_std) ==
    IF baseline_std = 0 /\ optimized_std = 0
    THEN [t |-> TZero, marker |-> ""]
    ELSE LET se2n == baseline_std * baseline_std + optimized_std * optimized_std
         IN  IF se2n = 0
             THEN [t |-> TZero, marker |-> ""]
             ELSE LET d == Abs(baseline_mean - optimized_mean)
                      t == [num |-> d * d * n, den |-> se2n]
                  IN  [t |-> t, marker |-> Marker(t)]

-----------------------------------------------------------------------------
(* extract_results *)

\* The suffixes in the order the stripping loop tries them.
Suffixes == <<"_mean", "_median", "_stddev", "_cv">>

RECURSIVE StripFirst(_, _)
StripFirst(name, i) ==
    IF i > Len(Suffixes) THEN name
    ELSE IF EndsWith(name, Suffixes[i]) THEN DropSuffix(name, Suffixes[i])
    ELSE StripFirst(name, i + 1)

\* A plausible slip: the loop without its break, so that a second suffix is
\* removed after the first.
RECURSIVE StripAll(_, _)
StripAll(name, i) ==
    IF i > Len(Suffixes) THEN name
    ELSE IF EndsWith(name, Suffixes[i]) THEN StripAll(DropSuffix(name, Suffixes[i]), i + 1)
    ELSE StripAll(name, i + 1)

base_name_MutantNoBreak(name) == StripAll(name, 1)

\* The logical name: the first matching suffix removed, and only that one.
base_name(name) == StripFirst(name, 1)

\* A plausible slip: a field that is already there is kept.
StorePairMutantFirstWins(bundle, kind, bench) ==
    IF (kind \o "_time") \in DOMAIN bundle THEN bundle
    ELSE Put(Put(bundle, kind \o "_time", Get(bench, "real_time", 0)),
             kind \o "_cpu", Get(bench, "cpu_time", 0))

\* A plausible slip: the time of a record without real_time is not stored.
StorePairMutantNoDefault(bundle, kind, bench) ==
    IF "real_time" \in DOMAIN bench
    THEN Put(Put(bundle, kind \o "_time", bench["real_time"]),
             kind \o "_cpu", Get(bench, "cpu_time", 0))
    ELSE Put(bundle, kind \o "_cpu", Get(bench, "cpu_time", 0))

\* results[base_name][kind_time] = bench.get('real_time', 0), and kind_cpu
\* likewise from cpu_time.
StorePair(bundle, kind, bench) ==
    Put(Put(bundle, kind \o "_time", Get(bench, "real_time", 0)),
        kind \o "_cpu", Get(bench, "cpu_time", 0))

\* The if/elif chain that stores the metrics of one record.
StoreMetrics(bundle, bench) ==
    IF EndsWith(bench.name, "_mean") THEN StorePair(bundle, "mean", bench)
    ELSE IF EndsWith(bench.name, "_stddev") THEN StorePair(bundle, "stddev", bench)
    ELSE IF EndsWith(bench.name, "_median") THEN StorePair(bundle, "median", bench)
    ELSE IF EndsWith(bench.name, "_cv") THEN StorePair(bundle, "cv", bench)
    ELSE bundle

\* A plausible slip: the bundle made only for a record with a suffix.
ExtractRecordMutantSuffixOnly(res, bench) ==
    LET base == base_name(bench.name)
        res1 == IF base \notin DOMAIN res THEN Put(res, base, EmptyDict) ELSE res
    IN  IF base = bench.name THEN res
        ELSE Put(res1, base, StoreMetrics(res1[base], bench))

\* One iteration of the loop over data['benchmarks'].
ExtractRecord(res, bench) ==
    LET base == base_name(bench.name)
        res1 == IF base \notin DOMAIN res THEN Put(res, base, EmptyDict) ELSE res
    IN  Put(res1, base, StoreMetrics(res1[base], bench))

-----------------------------------------------------------------------------
(* compare_benchmarks *)

\* sorted(S): the names of S in ascending order.
RECURSIVE Sorted(_)
Sorted(S) ==
    IF S = {} THEN <<>>
    ELSE LET least == CHOOSE x \in S : \A y \in S \ {x} : StrLess(x, y)
         IN  <<least>> \o Sorted(S \ {least})

\* ((optimized - baseline) / baseline) * 100, for baseline # 0.
PctChange(optimized, baseline) == [num |-> (optimized - baseline) * 100, den |-> baseline]

\* change < k
PctLess(change, k) ==
    IF change.den > 0 THEN change.num < k * change.den
    ELSE change.num > k * change.den

\* A plausible slip: the marker "." taken for a significant one.
IsSignificantImprovementMutantDot(cpu_change, sig_marker) ==
    PctLess(cpu_change, -2) /\ sig_marker \in {".", "*", "**", "***"}

\* The test that tracks a row as a significant improvement.
IsSignificantImprovement(cpu_change, sig_marker) ==
    PctLess(cpu_change, -2) /\ sig_marker \in {"*", "**", "***"}

\* The test that skips a name of the baseline.
Skipped(name, base, opt) ==
    \/ name \notin DOMAIN opt
    \/ "mean_cpu" \notin DOMAIN base[name]
    \/ "mean_cpu" \notin DOMAIN opt[name]

\* A plausible slip: only the division by the CPU mean taken to fail.
DivisionFailsMutantCpuOnly(baseline) == baseline["mean_cpu"] = 0

\* The divisions by baseline['mean_time'] and baseline['mean_cpu'] raise
\* ZeroDivisionError when the divisor is zero.
DivisionFails(baseline) == baseline["mean_time"] = 0 \/ baseline["mean_cpu"] = 0

\* A plausible slip: the loop over the keys as the dict gives them, here in
\* descending order.
RECURSIVE SortedDescending(_)
SortedDescending(S) ==
    IF S = {} THEN <<>>
    ELSE LET least == CHOOSE x \in S : \A y \in S \ {x} : StrLess(x, y)
         IN  SortedDescending(S \ {least}) \o <<least>>

ReportOrderMutantDescending(res) == SortedDescending(DOMAIN res)

\* The names the report loop visits, in its order.
ReportOrder(res) == Sorted(DOMAIN res)

\* The row of a compared name whose baseline means are not zero.
Row(name, baseline, optimized) ==
    LET sig == compute_significance(baseline["mean_cpu"], Get(baseline, "stddev_cpu", 0),
                                    optimized["mean_cpu"], Get(optimized, "stddev_cpu", 0))
    IN  [name |-> name,
         time_change |-> PctChange(optimized["mean_time"], baseline["mean_time"]),
         cpu_change |-> PctChange(optimized["mean_cpu"], baseline["mean_cpu"]),
         t_stat |-> sig.t,
         sig_marker |-> sig.marker]

-----------------------------------------------------------------------------
(* The inputs *)

\* The records of each file in a run of compare_benchmarks.
MaxFileRecords == 3

CmpNames == {"a_mean", "b_mean", "a_stddev"}

\* Both times, with a cpu_time that serves as a mean or as a standard
\* deviation, or only one of the two times.
CmpMeasurements ==
    {[real_time |-> 100, cpu_time |-> c] : c \in {100, 98, 60, 3}}
        \cup {[real_time |-> 100], [cpu_time |-> 100]}

CmpRecords == {[name |-> nm] @@ m : nm \in CmpNames, m \in CmpMeasurements}

\* The records of one file given to extract_results on its own.
MaxRecords == 3

AggNames == {"a_mean", "a_median", "a_stddev", "a_cv", "a", "b_mean",
             "a_cv_mean", "_mean"}

\* What a record carries besides its name: both times, one of them, none.
Measurements == {[real_time |-> 1, cpu_time |-> 2], [real_time |-> 3],
                 [cpu_time |-> 4], EmptyDict}

AggRecords == {[name |-> nm] @@ m : nm \in AggNames, m \in Measurements}

\* The arguments given to compute_significance on its own: differences of
\* means at and next to each threshold, over a standard error of 100
\* (standard deviations 400 and 200) and over others.
SigMeans == {0, 100} \cup UNION {{c, c + 1} : c \in {T_p001, T_p01, T_p05, T_p10}}
SigOptMeans == {0, 1}
SigStds == {0, 200, 400}
SigOptStds == {0, 200}

-----------------------------------------------------------------------------
(* The state machine *)

Init ==
    /\ data = <<>>
    /\ results = EmptyDict
    /\ sig_args = <<>>
    /\ sig_ret = [t |-> TZero, marker |-> ""]
    /\ sig_prev = [t |-> TZero, marker |-> ""]
    /\ pc = "extract_baseline"
    /\ baseline_results = EmptyDict
    /\ optimized_results = EmptyDict
    /\ nread = 0
    /\ todo = <<>>
    /\ table = <<>>
    /\ significant_improvements = <<>>
    /\ legend = FALSE
    /\ summary = "none"

\* extract_results consumes the next record of its input.
AggStep ==
    /\ Len(data) < MaxRecords
    /\ \E bench \in AggRecords :
          /\ data' = Append(data, bench)
          /\ results' = ExtractRecord(results, bench)
    /\ UNCHANGED <<sigVars, cmpVars>>

AggNext == AggStep

SpecAgg == Init /\ [][AggNext]_vars

\* One call of compute_significance.
SigCall ==
    /\ \E bm \in SigMeans, bs \in SigStds, om \in SigOptMeans, os \in SigOptStds :
          /\ sig_args' = <<bm, bs, om, os>>
          /\ sig_ret' = compute_significance(bm, bs, om, os)
    /\ sig_prev' = sig_ret
    /\ UNCHANGED <<aggVars, cmpVars>>

SigNext == SigCall

SpecSig == Init /\ [][SigNext]_vars

\* extract_results(baseline_data) consumes the next record.
ExtractBaseline ==
    /\ pc = "extract_baseline"
    /\ nread < MaxFileRecords
    /\ \E bench \in CmpRecords :
          baseline_results' = ExtractRecord(baseline_results, bench)
    /\ nread' = nread + 1
    /\ UNCHANGED <<pc, optimized_results, todo, table, significant_improvements,
                   legend, summary, aggVars, sigVars>>

\* The baseline file has no more records.
EndBaseline ==
    /\ pc = "extract_baseline"
    /\ pc' = "extract_optimized"
    /\ nread' = 0
    /\ UNCHANGED <<baseline_results, optimized_results, todo, table,
                   significant_improvements, legend, summary, aggVars, sigVars>>

\* extract_results(optimized_data) consumes the next record.
ExtractOptimized ==
    /\ pc = "extract_optimized"
    /\ nread < MaxFileRecords
    /\ \E bench \in CmpRecords :
          optimized_results' = ExtractRecord(optimized_results, bench)
    /\ nread' = nread + 1
    /\ UNCHANGED <<pc, baseline_results, todo, table, significant_improvements,
                   legend, summary, aggVars, sigVars>>

\* The optimized file has no more records: the header is printed and the
\* loop over sorted(baseline_results.keys()) starts.
EndOptimized ==
    /\ pc = "extract_optimized"
    /\ pc' = "report"
    /\ nread' = 0
    /\ todo' = ReportOrder(baseline_results)
    /\ significant_improvements' = <<>>
    /\ UNCHANGED <<baseline_results, optimized_results, table, legend, summary,
                   aggVars, sigVars>>

\* One iteration of the report loop.
ReportRow ==
    /\ pc = "report"
    /\ todo # <<>>
    /\ LET name == Head(todo) IN
       IF Skipped(name, baseline_results, optimized_results)
       THEN /\ todo' = Tail(todo)
            /\ UNCHANGED <<pc, table, significant_improvements>>
       ELSE LET baseline == baseline_results[name]
                optimized == optimized_results[name]
            IN  IF "mean_time" \notin DOMAIN optimized \/ "mean_time" \notin DOMAIN baseline
                THEN /\ pc' = "KeyError"
                     /\ UNCHANGED <<todo, table, significant_improvements>>
                ELSE IF DivisionFails(baseline)
                THEN /\ pc' = "ZeroDivisionError"
                     /\ UNCHANGED <<todo, table, significant_improvements>>
                ELSE LET row == Row(name, baseline, optimized) IN
                     /\ table' = Append(table, row)
                     /\ significant_improvements' =
                            IF IsSignificantImprovement(row.cpu_change, row.sig_marker)
                            THEN Append(significant_improvements,
                                        <<name, row.cpu_change, row.sig_marker>>)
                            ELSE significant_improvements
                     /\ todo' = Tail(todo)
                     /\ pc' = pc
    /\ UNCHANGED <<baseline_results, optimized_results, nread, legend, summary,
                   aggVars, sigVars>>

\* After the loop: the legend, then the improvements or the notice.
PrintSummary ==
    /\ pc = "report"
    /\ todo = <<>>
    /\ legend' = TRUE
    /\ summary' = IF significant_improvements # <<>> THEN "list" ELSE "notice"
    /\ pc' = "done"
    /\ UNCHANGED <<baseline_results, optimized_results, nread, todo, table,
                   significant_improvements, aggVars, sigVars>>

Next ==
    \/ ExtractBaseline
    \/ EndBaseline
    \/ ExtractOptimized
    \/ EndOptimized
    \/ ReportRow
    \/ PrintSummary

Spec == Init /\ [][Next]_vars

-----------------------------------------------------------------------------
(* Vocabulary of the properties *)

Kinds == {"mean", "median", "stddev", "cv"}

\* The logical name of a record name, stated without an order of the
\* suffixes: the name less the suffix it ends with, if it ends with one.
LogicalName(nm) ==
    IF \E k \in Kinds : EndsWith(nm, "_" \o k)
    THEN DropSuffix(nm, "_" \o (CHOOSE k \in Kinds : EndsWith(nm, "_" \o k)))
    ELSE nm

Max(S) == CHOOSE x \in S : \A y \in S : y <= x

\* The tier of a marker.
Tier(m) == CASE m = "" -> 0 [] m = "." -> 1 [] m = "*" -> 2 [] m = "**" -> 3 [] m = "***" -> 4

\* t1 <= t2
TLeq(t1, t2) == ~FracGT(t1.num, t1.den, t2.num, t2.den)

\* t = c / 100
TEquals(t, c) == ~TGreater(t, c) /\ ~FracGT(c * c, 10000, t.num, t.den)

\* The last call of compute_significance was made, with a standard
\* deviation that is not zero.
NonDegenerateCall == sig_args # <<>> /\ ~(sig_args[2] = 0 /\ sig_args[4] = 0)

\* The names the Reporter compares: keys of both result sets whose bundles
\* both have mean_cpu.
Compared ==
    {nm \in (DOMAIN baseline_results) \cap (DOMAIN optimized_results) :
        /\ "mean_cpu" \in DOMAIN baseline_results[nm]
        /\ "mean_cpu" \in DOMAIN optimized_results[nm]}

RowNames == {table[i].name : i \in DOMAIN table}

Recorded == {significant_improvements[i][1] : i \in DOMAIN significant_improvements}

\* Both standard deviations the Reporter passes for nm are zero.
NoVariability(nm) ==
    /\ Get(baseline_results[nm], "stddev_cpu", 0) = 0
    /\ Get(optimized_results[nm], "stddev_cpu", 0) = 0

ZeroBaseline(nm) ==
    baseline_results[nm]["mean_time"] = 0 \/ baseline_results[nm]["mean_cpu"] = 0

PairedFields(res) ==
    \A nm \in DOMAIN res : \A k \in Kinds :
        ((k \o "_cpu") \in DOMAIN res[nm]) <=> ((k \o "_time") \in DOMAIN res[nm])

-----------------------------------------------------------------------------
(* The properties *)

\* C1: when compare_benchmarks completes, the table has exactly one row for
\* each name that is a key of both result sets with mean_cpu in both
\* bundles, no other row, and the rows are in ascending order of name.
C1_TableRows ==
    pc = "done" =>
        /\ RowNames = Compared
        /\ Len(table) = Cardinality(Compared)
        /\ \A i \in 1..(Len(table) - 1) : StrLess(table[i].name, table[i + 1].name)

\* A completed run with two rows.
C1_Witness == pc = "done" /\ Len(table) = 2

\* C2: a row is recorded in significant_improvements iff its CPU change is
\* less than -2 and its marker is "*", "**" or "***"; the notice is printed
\* exactly when the list is empty after the loop.
C2_SignificantImprovements ==
    /\ \A i \in DOMAIN table :
          (table[i].name \in Recorded) <=>
              /\ PctLess(table[i].cpu_change, -2)
              /\ table[i].sig_marker \in {"*", "**", "***"}
    /\ \A i \in DOMAIN significant_improvements :
          \E j \in DOMAIN table :
              significant_improvements[i] =
                  <<table[j].name, table[j].cpu_change, table[j].sig_marker>>
    /\ Len(significant_improvements) = Cardinality(Recorded)
    /\ (summary = "notice") <=> (pc = "done" /\ significant_improvements = <<>>)
    /\ (summary = "list") <=> (pc = "done" /\ significant_improvements # <<>>)

\* A completed run with a recorded row and a row whose CPU change is below
\* -2 and which is not recorded.
C2_Witness ==
    /\ pc = "done"
    /\ Len(significant_improvements) = 1
    /\ \E i \in DOMAIN table :
          table[i].name \notin Recorded /\ PctLess(table[i].cpu_change, -2)

\* C3: in the non-degenerate case the marker is "***" iff t > 3.85, "**" iff
\* 2.85 < t <= 3.85, "*" iff 2.09 < t <= 2.85, "." iff 1.68 < t <= 2.09 and
\* "" iff t <= 1.68; the tier of the marker does not decrease when t grows.
C3_MarkerThresholds ==
    /\ NonDegenerateCall =>
          LET t == sig_ret.t
              m == sig_ret.marker
          IN  /\ (m = "***") <=> TGreater(t, T_p001)
              /\ (m = "**") <=> (TGreater(t, T_p01) /\ ~TGreater(t, T_p001))
              /\ (m = "*") <=> (TGreater(t, T_p05) /\ ~TGreater(t, T_p01))
              /\ (m = ".") <=> (TGreater(t, T_p10) /\ ~TGreater(t, T_p05))
              /\ (m = "") <=> ~TGreater(t, T_p10)
    /\ TLeq(sig_prev.t, sig_ret.t) => Tier(sig_prev.marker) <= Tier(sig_ret.marker)

\* A call whose t is exactly 2.85, after a call with a smaller t.
C3_Witness ==
    /\ NonDegenerateCall
    /\ TEquals(sig_ret.t, T_p01)
    /\ sig_ret.marker = "*"
    /\ sig_prev.marker = "."

\* C4, as claimed: a t of exactly 2.09 gets the marker "", a t just above
\* 2.09 the marker "*".
C4_Original ==
    NonDegenerateCall =>
        /\ TEquals(sig_ret.t, T_p05) => sig_ret.marker = ""
        /\ (TGreater(sig_ret.t, T_p05) /\ ~TGreater(sig_ret.t, T_p01)) => sig_ret.marker = "*"

\* C4, amended: a t of exactly 2.09 gets the marker ".", the marker of the
\* tier below; a t above 2.09 and at most 2.85 gets the marker "*".
C4_BoundaryMarker ==
    NonDegenerateCall =>
        /\ TEquals(sig_ret.t, T_p05) => sig_ret.marker = "."
        /\ (TGreater(sig_ret.t, T_p05) /\ ~TGreater(sig_ret.t, T_p01)) => sig_ret.marker = "*"

\* A call whose t is exactly 2.09, after a call whose t is 2.10.
C4_Witness ==
    /\ NonDegenerateCall
    /\ TEquals(sig_ret.t, T_p05)
    /\ TEquals(sig_prev.t, T_p05 + 1)

\* C5: a compared benchmark whose stddev_cpu is absent or zero in both
\* result sets is reported with t = 0 and an empty marker, and is not
\* recorded as a significant improvement, whatever its means.
C5_NoVariabilityNotSignificant ==
    \A i \in DOMAIN table :
        NoVariability(table[i].name) =>
            /\ table[i].t_stat = TZero
            /\ table[i].sig_marker = ""
            /\ table[i].name \notin Recorded

\* A completed run with a row without variability data whose CPU change is
\* below -2.
C5_Witness ==
    /\ pc = "done"
    /\ \E i \in DOMAIN table :
          /\ NoVariability(table[i].name)
          /\ "stddev_cpu" \notin DOMAIN baseline_results[table[i].name]
          /\ PctLess(table[i].cpu_change, -50)

\* C6: the number of bundles equals the number of distinct logical names of
\* the records consumed.
C6_BundleCount ==
    Cardinality(DOMAIN results) =
        Cardinality({LogicalName(data[i].name) : i \in DOMAIN data})

\* Three records, two logical names, one record without a suffix.
C6_Witness ==
    /\ Len(data) = 3
    /\ Cardinality(DOMAIN results) = 2
    /\ \E i \in DOMAIN data : LogicalName(data[i].name) = data[i].name

\* C7: a record named X + "_" + s, s one of mean, median, stddev, cv, sets
\* exactly the fields s_time and s_cpu of the bundle keyed X, from its
\* real_time and cpu_time; a record without a suffix sets no field.
C7_SuffixRouting ==
    [][data' # data =>
        LET bench == data'[Len(data')]
            nm == bench.name
            old(X) == IF X \in DOMAIN results THEN results[X] ELSE EmptyDict
        IN  /\ \A k \in Kinds :
                  EndsWith(nm, "_" \o k) =>
                      LET X == DropSuffix(nm, "_" \o k) IN
                      /\ X \in DOMAIN results'
                      /\ DOMAIN results'[X] = (DOMAIN old(X)) \cup {k \o "_time", k \o "_cpu"}
                      /\ results'[X][k \o "_time"] = Get(bench, "real_time", 0)
                      /\ results'[X][k \o "_cpu"] = Get(bench, "cpu_time", 0)
                      /\ \A f \in (DOMAIN old(X)) \ {k \o "_time", k \o "_cpu"} :
                            results'[X][f] = old(X)[f]
            /\ (\A k \in Kinds : ~EndsWith(nm, "_" \o k)) =>
                  /\ nm \in DOMAIN results'
                  /\ results'[nm] = old(nm)
    ]_vars

\* The record a_cv_mean has set the mean fields of the bundle a_cv, and a
\* record a_cv the cv fields of the bundle a.
C7_Witness ==
    /\ "a_cv" \in DOMAIN results
    /\ "mean_cpu" \in DOMAIN results["a_cv"]
    /\ "a" \in DOMAIN results
    /\ "cv_cpu" \in DOMAIN results["a"]

\* C9: each field pair of a bundle X holds the times (0 if absent) of the
\* last record named X + "_" + s, and is absent if there is no such record;
\* no bundle is removed.
C9_LastWriteWins ==
    /\ DOMAIN results = {LogicalName(data[i].name) : i \in DOMAIN data}
    /\ \A X \in DOMAIN results : \A k \in Kinds :
          LET same == {i \in DOMAIN data : data[i].name = X \o "_" \o k}
          IN  IF same = {}
              THEN /\ (k \o "_time") \notin DOMAIN results[X]
                   /\ (k \o "_cpu") \notin DOMAIN results[X]
              ELSE /\ (k \o "_time") \in DOMAIN results[X]
                   /\ (k \o "_cpu") \in DOMAIN results[X]
                   /\ results[X][k \o "_time"] = Get(data[Max(same)], "real_time", 0)
                   /\ results[X][k \o "_cpu"] = Get(data[Max(same)], "cpu_time", 0)

\* Two records of the same name and different times, with a record of
\* another suffix of the same logical name between them.
C9_Witness ==
    /\ Len(data) = 3
    /\ data[1].name = data[3].name
    /\ data[1] # data[3]
    /\ data[2].name # data[1].name
    /\ LogicalName(data[2].name) = LogicalName(data[1].name)
    /\ LogicalName(data[1].name) # data[1].name
    /\ LogicalName(data[2].name) # data[2].name

\* C8: the run fails with a division by zero exactly at a compared name
\* whose baseline mean_time or mean_cpu is zero: before the row of that
\* name, the legend and the summary are printed.  A name that is not
\* compared does not make it fail.
C8_ZeroBaselineFails ==
    /\ pc = "ZeroDivisionError" =>
          /\ todo # <<>>
          /\ Head(todo) \in Compared
          /\ ZeroBaseline(Head(todo))
          /\ Head(todo) \notin RowNames
          /\ ~legend
          /\ summary = "none"
    /\ \A nm \in RowNames : nm \in Compared /\ ~ZeroBaseline(nm)
    /\ pc = "done" => \A nm \in Compared : ~ZeroBaseline(nm)

\* The run has failed at its second compared name, after the row of the
\* first.
C8_Witness ==
    /\ pc = "ZeroDivisionError"
    /\ Len(table) = 1
    /\ baseline_results[Head(todo)]["mean_cpu"] # 0

\* C10: the fields of every bundle come in pairs, kind_cpu present iff
\* kind_time is, after every record consumed; the report never fails with
\* a lookup of a missing field.
C10_FieldsInPairs ==
    /\ PairedFields(baseline_results)
    /\ PairedFields(optimized_results)
    /\ pc # "KeyError"

\* A row has been printed for a name whose bundles have a mean and a
\* standard deviation.
C10_Witness ==
    /\ pc = "done"
    /\ \E i \in DOMAIN table :
          /\ "stddev_time" \in DOMAIN baseline_results[table[i].name]
          /\ "mean_time" \in DOMAIN optimized_results[table[i].name]

====
